---------------------------- MODULE Spec2Model ----------------------------
(***************************************************************************)
(* A model of the modus-ponens toolkit (src/main.py): the Formula data     *)
(* model with its commutative equality and hash, the prefix parser, the    *)
(* normalizer, the pattern matcher and substitution, and the depth-bounded *)
(* proof search of Prover.prove with its proof cache.                      *)
(***************************************************************************)
EXTENDS Integers, Sequences, FiniteSets, TLC

VARIABLES
    pc,       \* position of the driver: which operation has run
    arg1,     \* first input of the operation under check
    arg2,     \* second input of the operation under check
    out,      \* what the operation returned
    cache,    \* Prover.proof_cache: a set of [key, proof] entries
    stack,    \* the chain of active Prover.prove calls, outermost first
    call,     \* the arguments of the outermost prove call
    result,   \* what the outermost prove call returned
    ncalls    \* how many outermost prove calls this Prover has served

vars == <<pc, arg1, arg2, out, cache, stack, call, result, ncalls>>

-----------------------------------------------------------------------------
(* Bounds of the model.                                                    *)

\* Largest number of nodes of an enumerated formula (a leaf counts one).
MaxSize == 3
\* Largest number of nodes of an enumerated pattern.
MaxPatternSize == 3

-----------------------------------------------------------------------------
(* Formula: the dataclass of main.py, lines 12-16.                         *)

Formula(type, children, value) ==
    [type |-> type, children |-> children, value |-> value]

\* Python's None, where a Formula is expected.
None == [type |-> "NONE", children |-> <<>>, value |-> ""]

type2str(formula_type) ==
    CASE formula_type = "AND"  -> "and"
      [] formula_type = "OR"   -> "or"
      [] formula_type = "NOT"  -> "not"
      [] formula_type = "IMPL" -> "implies"
      [] OTHER                 -> ""

str2type(formula_type) ==
    CASE formula_type = "and"     -> "AND"
      [] formula_type = "or"      -> "OR"
      [] formula_type = "not"     -> "NOT"
      [] formula_type = "implies" -> "IMPL"
      [] OTHER                    -> "VAR"

Var(name) == Formula("VAR", <<>>, name)

Impl(left, right) == Formula("IMPL", <<left, right>>, "")

Not(f) == Formula("NOT", <<f>>, "")

\* The nodes the parser builds: value is the keyword.
Node1(type, child) == Formula(type, <<child>>, type2str(type))
Node2(type, left, right) == Formula(type, <<left, right>>, type2str(type))

RECURSIVE is_equal(_, _)
is_equal(f1, f2) ==
    IF f1 = None /\ f2 = None THEN TRUE
    ELSE IF f1 = None \/ f2 = None THEN FALSE
    ELSE IF f1.type # f2.type THEN FALSE
    ELSE CASE f1.type = "VAR" -> f1.value = f2.value
           [] f1.type = "NOT" -> is_equal(f1.children[1], f2.children[1])
           [] f1.type \in {"AND", "OR"} ->
                LET direct_match ==
                        /\ is_equal(f1.children[1], f2.children[1])
                        /\ is_equal(f1.children[2], f2.children[2])
                    swapped_match ==
                        /\ is_equal(f1.children[1], f2.children[2])
                        /\ is_equal(f1.children[2], f2.children[1])
                IN  direct_match \/ swapped_match
           [] f1.type = "IMPL" ->
                /\ is_equal(f1.children[1], f2.children[1])
                /\ is_equal(f1.children[2], f2.children[2])
           [] OTHER -> FALSE

-----------------------------------------------------------------------------
(* Formula.__hash__.  Python's builtin hash of a str and of a tuple is     *)
(* modelled by a fixed table and by an order-sensitive mixing of the       *)
(* element hashes, both reduced to the hash width.                         *)

HashMod == 2 ^ 13

StrTable == <<"VAR", "NOT", "AND", "OR", "IMPL", "A", "B", "C", "P", "Q">>

StrHash(s) ==
    IF \E i \in 1..Len(StrTable) : StrTable[i] = s
    THEN (CHOOSE i \in 1..Len(StrTable) : StrTable[i] = s) * 97
    ELSE 7

RECURSIVE TupleHash(_)
TupleHash(t) ==
    IF t = <<>> THEN 17
    ELSE (TupleHash(SubSeq(t, 1, Len(t) - 1)) * 31 + t[Len(t)]) % HashMod

\* The pair of child hashes left in the order of the children.
unsorted(t) == t

\* sorted() of a pair of child hashes.
sorted(t) == IF t[1] <= t[2] THEN t ELSE <<t[2], t[1]>>

RECURSIVE Formula_hash(_)
Formula_hash(self) ==
    IF self.type = "VAR"
    THEN TupleHash(<<StrHash("VAR"), StrHash(self.value)>>)
    ELSE LET children_hash ==
                 [i \in 1..Len(self.children) |-> Formula_hash(self.children[i])]
         IN  IF self.type = "NOT"
             THEN TupleHash(<<StrHash("NOT"), children_hash[1]>>)
             ELSE IF self.type \in {"AND", "OR"}
             THEN LET child_hashes == sorted(children_hash)
                  IN  TupleHash(<<StrHash(self.type), TupleHash(child_hashes)>>)
             ELSE TupleHash(<<StrHash(self.type), children_hash[1],
                              children_hash[2]>>)

-----------------------------------------------------------------------------
(* normalize_formula, copy_formula, match_pattern, apply_substitution.     *)

RECURSIVE normalize_formula(_)
normalize_formula(formula) ==
    IF formula = None THEN formula
    ELSE CASE formula.type = "AND" ->
                LET left_child  == normalize_formula(formula.children[1])
                    right_child == normalize_formula(formula.children[2])
                    new_right   == Node1("NOT", right_child)
                    impl_formula == Node2("IMPL", left_child, new_right)
                IN  Node1("NOT", impl_formula)
           [] formula.type = "OR" ->
                LET left_child  == normalize_formula(formula.children[1])
                    right_child == normalize_formula(formula.children[2])
                    new_left    == Node1("NOT", left_child)
                IN  Node2("IMPL", new_left, right_child)
           [] OTHER -> formula

RECURSIVE copy_formula(_)
copy_formula(f) ==
    LET children_copy == [i \in 1..Len(f.children) |-> copy_formula(f.children[i])]
    IN  Formula(f.type, children_copy, f.value)

\* A substitution is a function from the bound names to formulas; a match
\* returns [ok, subst], ok = FALSE standing for Python's None.
EmptySubst == [n \in {} |-> None]

NoMatch == [ok |-> FALSE, subst |-> EmptySubst]

Matched(s) == [ok |-> TRUE, subst |-> s]

Bind(substitution, var_name, f) ==
    [n \in DOMAIN substitution \cup {var_name} |->
        IF n = var_name THEN f ELSE substitution[n]]

\* The check of a bound name accepting whatever the name meets.
RebindUnchecked(substitution, var_name, target) == Matched(substitution)

\* The check of a name that is already bound (main.py, lines 238-241).
Rebind(substitution, var_name, target) ==
    IF ~ is_equal(substitution[var_name], target)
    THEN NoMatch
    ELSE Matched(substitution)

RECURSIVE match_pattern(_, _, _)
match_pattern(pattern, target, substitution) ==
    IF pattern.type = "VAR"
    THEN LET var_name == pattern.value
         IN  IF var_name \in DOMAIN substitution
             THEN Rebind(substitution, var_name, target)
             ELSE Matched(Bind(substitution, var_name, copy_formula(target)))
    ELSE IF pattern.type # target.type THEN NoMatch
    ELSE IF pattern.type = "NOT"
    THEN IF Len(pattern.children) # 1 \/ Len(target.children) # 1
         THEN NoMatch
         ELSE match_pattern(pattern.children[1], target.children[1], substitution)
    ELSE IF pattern.type \in {"AND", "OR", "IMPL"}
    THEN IF Len(pattern.children) # 2 \/ Len(target.children) # 2
         THEN NoMatch
         ELSE LET first == match_pattern(pattern.children[1], target.children[1],
                                         substitution)
              IN  IF ~ first.ok THEN NoMatch
                  ELSE match_pattern(pattern.children[2], target.children[2],
                                     first.subst)
    ELSE NoMatch

\* A variable left as it stands, whatever the substitution binds.
KeepVariable(pattern, substitution) == Var(pattern.value)

\* apply_substitution on a variable (main.py, lines 277-280).
ApplyVariable(pattern, substitution) ==
    IF pattern.value \in DOMAIN substitution
    THEN copy_formula(substitution[pattern.value])
    ELSE Var(pattern.value)

RECURSIVE apply_substitution(_, _)
apply_substitution(pattern, substitution) ==
    IF pattern.type = "VAR"
    THEN ApplyVariable(pattern, substitution)
    ELSE LET children ==
                 [i \in 1..Len(pattern.children) |->
                     apply_substitution(pattern.children[i], substitution)]
         IN  Formula(pattern.type, children, pattern.value)

-----------------------------------------------------------------------------
(* The inputs the specifications range over.                               *)

Connectives2 == {"AND", "OR", "IMPL"}

\* The formulas of exactly n nodes whose leaves are drawn from leaves.
RECURSIVE BySize(_, _)
BySize(leaves, n) ==
    IF n <= 0 THEN {}
    ELSE IF n = 1 THEN leaves
    ELSE {Node1("NOT", c) : c \in BySize(leaves, n - 1)}
         \cup UNION {
                {Node2(t, l, r) : t \in Connectives2,
                                  l \in BySize(leaves, k),
                                  r \in BySize(leaves, n - 1 - k)}
                : k \in 1..(n - 2)}

FormulasOver(leaves, n) == UNION {BySize(leaves, k) : k \in 1..n}

\* Leaves that let And/Or operands meet in both orders below any node.
Leaves ==
    {Var("A"), Var("B"),
     Node2("AND", Var("A"), Var("B")), Node2("AND", Var("B"), Var("A"))}

Formulas == FormulasOver(Leaves, MaxSize)

\* Patterns share the name A with the targets and keep P to themselves.
Patterns == FormulasOver({Var("A"), Var("P")}, MaxPatternSize)

RECURSIVE VarNames(_)
VarNames(f) ==
    IF f.type = "VAR" THEN {f.value}
    ELSE UNION {VarNames(f.children[i]) : i \in 1..Len(f.children)}

RECURSIVE IsCore(_)
IsCore(f) ==
    /\ f.type \in {"VAR", "NOT", "IMPL"}
    /\ \A i \in 1..Len(f.children) : IsCore(f.children[i])

-----------------------------------------------------------------------------
(* The prover's state is idle in the specifications of the pure functions. *)

Nil == <<>>

ProverIdle ==
    /\ cache = {}
    /\ stack = <<>>
    /\ call = Nil
    /\ result = Nil
    /\ ncalls = 0

ProverUnchanged == UNCHANGED <<cache, stack, call, result, ncalls>>

-----------------------------------------------------------------------------
(* SpecNorm: normalize_formula applied to every enumerated formula.        *)

InitNorm ==
    /\ pc = "input"
    /\ arg1 \in Formulas
    /\ arg2 = Nil
    /\ out = Nil
    /\ ProverIdle

Normalize ==
    /\ pc = "input"
    /\ pc' = "normalized"
    /\ out' = normalize_formula(arg1)
    /\ UNCHANGED <<arg1, arg2>>
    /\ ProverUnchanged

NextNorm == Normalize

SpecNorm == InitNorm /\ [][NextNorm]_vars

-----------------------------------------------------------------------------
(* SpecMatch: match_pattern from an empty substitution, then               *)
(* apply_substitution of the result to the pattern and to the target.      *)

InitMatch ==
    /\ pc = "input"
    /\ arg1 \in Patterns
    /\ arg2 \in Formulas
    /\ out = Nil
    /\ ProverIdle

Match ==
    /\ pc = "input"
    /\ LET subs == match_pattern(arg1, arg2, EmptySubst)
       IN  /\ pc' = IF subs.ok THEN "matched" ELSE "nomatch"
           /\ out' = [subs |-> subs, f1 |-> None, f2 |-> None]
    /\ UNCHANGED <<arg1, arg2>>
    /\ ProverUnchanged

Apply ==
    /\ pc = "matched"
    /\ pc' = "applied"
    /\ out' = [out EXCEPT !.f1 = apply_substitution(arg1, out.subs.subst),
                          !.f2 = apply_substitution(arg2, out.subs.subst)]
    /\ UNCHANGED <<arg1, arg2>>
    /\ ProverUnchanged

NextMatch == Match \/ Apply

SpecMatch == InitMatch /\ [][NextMatch]_vars

-----------------------------------------------------------------------------
(* Proofs and the proof cache (Prover.proof_cache, a dict).                *)

\* A proof is the one-element list prove builds; the fields a rule does
\* not use keep their defaults.  NoProof is Python's None.
NoProof ==
    [rule |-> "none", index |-> 0, left |-> None, right |-> None,
     sub |-> <<>>, subst |-> EmptySubst, target |-> None]

HypothesisProof(i, target) ==
    [NoProof EXCEPT !.rule = "hypothesis", !.index = i, !.target = target]

DeductionProof(left, right, proof_right) ==
    [NoProof EXCEPT !.rule = "deduction", !.left = left, !.right = right,
                    !.sub = <<proof_right>>]

MpProof(i, proof_left, target) ==
    [NoProof EXCEPT !.rule = "mp", !.index = i, !.sub = <<proof_left>>,
                    !.target = target]

AxiomProof(axiom_idx, substitution, target) ==
    [NoProof EXCEPT !.rule = "axiom", !.index = axiom_idx,
                    !.subst = substitution, !.target = target]

\* cache_key = (target, tuple(hypotheses), depth)
CacheKey(target, hypotheses, depth) ==
    [target |-> target, hyps |-> hypotheses, depth |-> depth]

\* == of two key tuples: element by element, Formula.__eq__ on formulas.
KeyEq(k1, k2) ==
    /\ is_equal(k1.target, k2.target)
    /\ Len(k1.hyps) = Len(k2.hyps)
    /\ \A i \in 1..Len(k1.hyps) : is_equal(k1.hyps[i], k2.hyps[i])
    /\ k1.depth = k2.depth

\* hash of a key tuple: of the element hashes, Formula.__hash__ on formulas.
KeyHash(k) ==
    TupleHash(<<Formula_hash(k.target),
                TupleHash([i \in 1..Len(k.hyps) |-> Formula_hash(k.hyps[i])]),
                k.depth>>)

\* The entries a dict lookup of key k lands on: those of the same hash
\* whose key is == to k.
CacheHits(c, k) ==
    {e \in c : KeyEq(e.key, k) /\ KeyHash(e.key) = KeyHash(k)}

\* cache_key in self.proof_cache
CacheHas(c, k) == CacheHits(c, k) # {}

\* self.proof_cache[cache_key]
CacheGet(c, k) == (CHOOSE e \in CacheHits(c, k) : TRUE).proof

\* self.proof_cache[cache_key] = proof: an equal key keeps its first form.
CacheStore(c, k, proof) ==
    IF CacheHas(c, k)
    THEN LET old == CHOOSE e \in CacheHits(c, k) : TRUE
         IN  (c \ {old}) \cup {[key |-> old.key, proof |-> proof]}
    ELSE c \cup {[key |-> k, proof |-> proof]}

-----------------------------------------------------------------------------
(* SpecHash: is_equal and Formula.__hash__ on every pair of enumerated     *)
(* formulas, then a cache entry stored under a key made of the first and   *)
(* looked up under the key made of the second.                             *)

InitHash ==
    /\ pc = "input"
    /\ arg1 \in Formulas
    /\ arg2 \in Formulas
    /\ out = Nil
    /\ cache = {}
    /\ stack = <<>>
    /\ call = Nil
    /\ result = Nil
    /\ ncalls = 0

HashBoth ==
    /\ pc = "input"
    /\ pc' = "hashed"
    /\ out' = [eq |-> is_equal(arg1, arg2), h1 |-> Formula_hash(arg1),
               h2 |-> Formula_hash(arg2), found |-> FALSE]
    /\ UNCHANGED <<arg1, arg2>>
    /\ ProverUnchanged

StoreKey ==
    /\ pc = "hashed"
    /\ pc' = "stored"
    /\ cache' = CacheStore(cache, CacheKey(arg1, <<arg1>>, 0),
                           HypothesisProof(0, arg1))
    /\ UNCHANGED <<arg1, arg2, out, stack, call, result, ncalls>>

LookupKey ==
    /\ pc = "stored"
    /\ pc' = "looked"
    /\ out' = [out EXCEPT !.found = CacheHas(cache, CacheKey(arg2, <<arg2>>, 0))]
    /\ UNCHANGED <<arg1, arg2>>
    /\ ProverUnchanged

NextHash == HashBoth \/ StoreKey \/ LookupKey

SpecHash == InitHash /\ [][NextHash]_vars

-----------------------------------------------------------------------------
(* Claims about the pure functions.                                        *)

\* C4: whenever match_pattern from an empty substitution succeeds with s,
\* apply_substitution(pattern, s) is is_equal to the target.
C4_ApplyReproducesTarget ==
    pc = "applied" => is_equal(out.f1, arg2)

\* C4 witness: a pattern that repeats a variable matched a target whose two
\* And operands stand in different orders at the repeated positions.
C4_Witness ==
    /\ pc = "applied"
    /\ arg1 = Node2("IMPL", Var("P"), Var("P"))
    /\ arg2.children[1] # arg2.children[2]
    /\ arg2.children[1].type = "AND"

\* C5 as stated: after a successful match, the substitution applied to the
\* pattern and to the target gives is_equal formulas, whatever the names.
C5_Original ==
    pc = "applied" => is_equal(out.f1, out.f2)

\* C5 amended: the same, when no variable name of the target is a variable
\* name of the pattern.
C5_UnifierDisjointNames ==
    (pc = "applied" /\ VarNames(arg1) \cap VarNames(arg2) = {})
        => is_equal(out.f1, out.f2)

\* C5 witness: a match of a two-node pattern against a target that shares
\* no name with it has been applied to both.
C5_Witness ==
    /\ pc = "applied"
    /\ VarNames(arg1) \cap VarNames(arg2) = {}
    /\ arg1.type = "NOT"
    /\ arg2.children[1].type = "VAR"

\* C6: is_equal formulas have equal hashes, and a cache entry stored under
\* a key is found under every key whose formulas are is_equal to its own.
C6_EqualHashAndLookup ==
    /\ (pc \in {"hashed", "stored", "looked"} /\ out.eq) => out.h1 = out.h2
    /\ (pc = "looked" /\ out.eq) => out.found

\* C6 witness: two formulas that differ by swapped And operands below the
\* root were found equal and the entry of the one was found under the other.
C6_Witness ==
    /\ pc = "looked"
    /\ out.eq
    /\ out.found
    /\ arg1 # arg2
    /\ arg1.type \in {"NOT", "IMPL", "OR"}

\* C9 as stated: normalize_formula returns a core formula, with no And or
\* Or node at any depth.
C9_NormalizeIsCore ==
    pc = "normalized" => IsCore(out)

-----------------------------------------------------------------------------
(* Parser.  A text is a sequence of characters; pos counts from 0 as in    *)
(* the code, so the character at pos is formula_str[pos + 1] here.         *)

\* str.isspace() on the characters the texts are made of.
isspace(c) == c \in {" ", "\t", "\n"}

RECURSIVE skip_whitespace(_, _)
skip_whitespace(formula_str, pos) ==
    IF pos < Len(formula_str) /\ isspace(formula_str[pos + 1])
    THEN skip_whitespace(formula_str, pos + 1)
    ELSE pos

\* The loop of read_token (main.py, lines 131-136).
RECURSIVE ScanToken(_, _, _)
ScanToken(formula_str, pos, token) ==
    IF pos = Len(formula_str) THEN [token |-> token, pos |-> pos]
    ELSE LET c == formula_str[pos + 1]
         IN  IF c = " " \/ c \in {"(", ")"}
             THEN [token |-> token, pos |-> pos]
             ELSE ScanToken(formula_str, pos + 1, token \o c)

read_token(formula_str, pos0) ==
    LET pos == skip_whitespace(formula_str, pos0)
    IN  IF pos >= Len(formula_str) THEN [token |-> "", pos |-> pos]
        ELSE IF formula_str[pos + 1] \in {"(", ")"}
        THEN [token |-> formula_str[pos + 1], pos |-> pos + 1]
        ELSE ScanToken(formula_str, pos, "")

\* parse_formula returns a Formula or raises RuntimeError: err = TRUE is
\* the raise, and pos is the parser's position afterwards.
Raise(pos) == [err |-> TRUE, f |-> None, pos |-> pos]

Return(f, pos) == [err |-> FALSE, f |-> f, pos |-> pos]

\* close_paren = self.read_token(); if close_paren != ")": raise
ExpectClose(formula_str, pos, f) ==
    LET close_paren == read_token(formula_str, pos)
    IN  IF close_paren.token # ")"
        THEN Raise(close_paren.pos)
        ELSE Return(f, close_paren.pos)

RECURSIVE parse_formula(_, _)
parse_formula(formula_str, pos) ==
    LET tok == read_token(formula_str, pos)
    IN  IF tok.token = "("
        THEN LET op_token == read_token(formula_str, tok.pos)
                 formula_type == str2type(op_token.token)
             IN  CASE formula_type = "NOT" ->
                        LET child == parse_formula(formula_str, op_token.pos)
                        IN  IF child.err THEN child
                            ELSE ExpectClose(formula_str, child.pos,
                                     Formula(formula_type, <<child.f>>,
                                             type2str(formula_type)))
                   [] formula_type \in {"AND", "OR", "IMPL"} ->
                        LET left_child == parse_formula(formula_str, op_token.pos)
                        IN  IF left_child.err THEN left_child
                            ELSE LET right_child ==
                                         parse_formula(formula_str, left_child.pos)
                                 IN  IF right_child.err THEN right_child
                                     ELSE ExpectClose(formula_str, right_child.pos,
                                              Formula(formula_type,
                                                      <<left_child.f, right_child.f>>,
                                                      type2str(formula_type)))
                   [] formula_type = "VAR" ->
                        ExpectClose(formula_str, op_token.pos,
                                    Formula(formula_type, <<>>, op_token.token))
                   [] OTHER -> Raise(op_token.pos)
        ELSE IF tok.token = ""
             THEN Raise(tok.pos)
             ELSE Return(Formula("VAR", <<>>, tok.token), tok.pos)

\* Parser(text).parse_formula()
Parse(text) == parse_formula(text, 0)

-----------------------------------------------------------------------------
(* The prefix grammar of the formula text syntax, as the reference the     *)
(* parser is compared with: tokens end at any whitespace or parenthesis,   *)
(* and a text is a formula when its tokens derive one, with none left.     *)

Keywords == {"and", "or", "not", "implies"}

RECURSIVE GrammarTokens(_, _, _)
GrammarTokens(text, i, word) ==
    LET flush == IF word = "" THEN <<>> ELSE <<word>>
    IN  IF i > Len(text) THEN flush
        ELSE IF isspace(text[i]) THEN flush \o GrammarTokens(text, i + 1, "")
        ELSE IF text[i] \in {"(", ")"}
        THEN flush \o <<text[i]>> \o GrammarTokens(text, i + 1, "")
        ELSE GrammarTokens(text, i + 1, word \o text[i])

IsAtom(toks, i) ==
    i <= Len(toks) /\ toks[i] \notin Keywords \cup {"(", ")"}

IsToken(toks, i, t) == i <= Len(toks) /\ toks[i] = t

\* The index after the formula that starts at token i, or 0 when none does.
RECURSIVE GrammarFormula(_, _)
GrammarFormula(toks, i) ==
    IF IsAtom(toks, i) THEN i + 1
    ELSE IF ~ IsToken(toks, i, "(") THEN 0
    ELSE IF IsToken(toks, i + 1, "not")
    THEN LET j == GrammarFormula(toks, i + 2)
         IN  IF j # 0 /\ IsToken(toks, j, ")") THEN j + 1 ELSE 0
    ELSE IF i + 1 <= Len(toks) /\ toks[i + 1] \in {"and", "or", "implies"}
    THEN LET j == GrammarFormula(toks, i + 2)
             k == IF j = 0 THEN 0 ELSE GrammarFormula(toks, j)
         IN  IF k # 0 /\ IsToken(toks, k, ")") THEN k + 1 ELSE 0
    ELSE IF IsAtom(toks, i + 1) /\ IsToken(toks, i + 2, ")") THEN i + 3
    ELSE 0

WellFormed(text) ==
    LET toks == GrammarTokens(text, 1, "")
    IN  GrammarFormula(toks, 1) = Len(toks) + 1

\* The text with every whitespace character replaced by a space.
SpaceOnly(text) ==
    [i \in 1..Len(text) |-> IF isspace(text[i]) THEN " " ELSE text[i]]

-----------------------------------------------------------------------------
(* SpecParse: the parser applied to every text of at most MaxPieces        *)
(* pieces, and to the same text with spaces for its whitespace.            *)

MaxPieces == 5

Pieces ==
    {<<"(">>, <<")">>, <<" ">>, <<"\t">>, <<"A">>, <<"n", "o", "t">>,
     <<"a", "n", "d">>}

RECURSIVE Flatten(_)
Flatten(ps) == IF ps = <<>> THEN <<>> ELSE Head(ps) \o Flatten(Tail(ps))

Texts == {Flatten(ps) : ps \in UNION {[1..n -> Pieces] : n \in 0..MaxPieces}}

InitParse ==
    /\ pc = "input"
    /\ arg1 \in Texts
    /\ arg2 = SpaceOnly(arg1)
    /\ out = Nil
    /\ ProverIdle

ParseText ==
    /\ pc = "input"
    /\ pc' = "parsed"
    /\ out' = [res |-> Parse(arg1), spaced |-> Parse(arg2)]
    /\ UNCHANGED <<arg1, arg2>>
    /\ ProverUnchanged

NextParse == ParseText

SpecParse == InitParse /\ [][NextParse]_vars

\* C7 as stated: for every text that is not a formula of the prefix
\* grammar, parse raises a syntax error and returns no Formula.
C7_MalformedRaises ==
    (pc = "parsed" /\ ~ WellFormed(arg1)) => out.res.err

\* C8 as stated: for every well-formed text, the parser returns the same
\* Formula whichever whitespace characters separate its tokens.
C8_WhitespaceIndependent ==
    (pc = "parsed" /\ WellFormed(arg1)) => out.res = out.spaced

-----------------------------------------------------------------------------
(* Prover.__init__: the four axiom texts, parsed once.                     *)

LP == <<"(">>
RP == <<")">>
SP == <<" ">>
IMPLIES == <<"i", "m", "p", "l", "i", "e", "s">>
NOT == <<"n", "o", "t">>
VA == <<"A">>
VB == <<"B">>
VC == <<"C">>

AxiomTexts ==
    << \* (implies A (implies B A))
       Flatten(<<LP, IMPLIES, SP, VA, SP, LP, IMPLIES, SP, VB, SP, VA, RP, RP>>),
       \* (implies (implies A (implies B C)) (implies (implies A B) (implies A C)))
       Flatten(<<LP, IMPLIES, SP,
                 LP, IMPLIES, SP, VA, SP, LP, IMPLIES, SP, VB, SP, VC, RP, RP, SP,
                 LP, IMPLIES, SP, LP, IMPLIES, SP, VA, SP, VB, RP, SP,
                                  LP, IMPLIES, SP, VA, SP, VC, RP, RP, RP>>),
       \* (implies (implies (not B) (not A)) (implies (implies (not B) A) B))
       Flatten(<<LP, IMPLIES, SP,
                 LP, IMPLIES, SP, LP, NOT, SP, VB, RP, SP, LP, NOT, SP, VA, RP, RP, SP,
                 LP, IMPLIES, SP, LP, IMPLIES, SP, LP, NOT, SP, VB, RP, SP, VA, RP,
                                  SP, VB, RP, RP>>),
       \* (implies A A)
       Flatten(<<LP, IMPLIES, SP, VA, SP, VA, RP>>) >>

axioms == [i \in 1..Len(AxiomTexts) |-> Parse(AxiomTexts[i]).f]

-----------------------------------------------------------------------------
(* Prover.prove.  Each active call is a frame; the top frame is the one    *)
(* running.  phase tells where the call stands: "enter" before line 301,   *)
(* "deduction" waiting for the call of line 319, "mp" waiting for the call *)
(* of line 329 made for hypothesis number i (counted from 0).              *)

\* max_depth when the caller gives none (main.py, line 297).
DefaultMaxDepth == 1000

\* CPython's default sys.getrecursionlimit(): a call that would make the
\* chain of active frames longer raises RecursionError.  Only the frames of
\* prove are counted here; the interpreter counts those of its callers and
\* of __eq__ and __hash__ as well, so it raises no later than this.
RecursionLimit == 1000

\* What the outermost call yields when RecursionError unwinds the chain:
\* the exception leaves prove, and nothing in main.py catches it.
RecursionError == [NoProof EXCEPT !.rule = "RecursionError"]

Frame(target, hypotheses, depth, max_depth) ==
    [target |-> target, hyps |-> hypotheses, depth |-> depth,
     max_depth |-> max_depth, phase |-> "enter", i |-> 0]

Top == stack[Len(stack)]

TopKey == CacheKey(Top.target, Top.hyps, Top.depth)

\* for i, hyp in enumerate(hypotheses): if hyp == target (lines 308-309)
HypMatches(f) == {i \in 0..(Len(f.hyps) - 1) : is_equal(f.hyps[i + 1], f.target)}

\* The test of line 314 never taking the deduction branch.
NeverImplication(target) == FALSE

\* if target.type == FormulaType.IMPL (line 314)
IsImplication(target) == target.type = "IMPL"

\* The test of line 327 taking any implication among the hypotheses.
MpAppliesAnyImplication(hyp, target) == hyp.type = "IMPL"

\* hyp.type == FormulaType.IMPL and hyp.children[1] == target (line 327)
MpApplies(hyp, target) == hyp.type = "IMPL" /\ is_equal(hyp.children[2], target)

\* The hypotheses the loop of line 326 still has to try, from number j on.
MpCandidates(f, j) ==
    {i \in j..(Len(f.hyps) - 1) : MpApplies(f.hyps[i + 1], f.target)}

\* The axioms whose schema matches the target (lines 336-338), numbered from 1.
AxiomMatches(target) ==
    {k \in 1..Len(axioms) : match_pattern(axioms[k], target, EmptySubst).ok}

Min(S) == CHOOSE x \in S : \A y \in S : x <= y

\* The running call is past the cache, the depth test and the hypotheses.
PastHypotheses ==
    /\ pc = "run"
    /\ ~ CacheHas(cache, TopKey)
    /\ Top.depth <= Top.max_depth
    /\ HypMatches(Top) = {}

\* The number of the hypothesis at which the loop of line 326 starts or goes
\* on, or -1 when the top call is not at that loop.
MpResume ==
    IF PastHypotheses /\ ~ IsImplication(Top.target) THEN 0
    ELSE IF pc = "return" /\ out = NoProof
    THEN IF Top.phase = "deduction" THEN 0 ELSE Top.i + 1
    ELSE -1

\* return v: the call ends; its caller, if any, goes on with v.
Return_(v, newcache) ==
    /\ cache' = newcache
    /\ stack' = SubSeq(stack, 1, Len(stack) - 1)
    /\ IF Len(stack) = 1
       THEN pc' = "done" /\ result' = v /\ out' = Nil
       ELSE pc' = "return" /\ out' = v /\ UNCHANGED result
    /\ UNCHANGED <<arg1, arg2, call, ncalls>>

\* self.proof_cache[cache_key] = proof; return proof
StoreAndReturn(proof) == Return_(proof, CacheStore(cache, TopKey, proof))

\* self.prove(target, hypotheses, depth + 1, max_depth) from the top call,
\* which waits in the given phase.
Recurse(target, hypotheses, phase, i) ==
    IF Len(stack) + 1 > RecursionLimit
    THEN /\ pc' = "raised"
         /\ result' = RecursionError
         /\ stack' = <<>>
         /\ out' = Nil
         /\ UNCHANGED <<arg1, arg2, cache, call, ncalls>>
    ELSE /\ pc' = "run"
         /\ stack' = [stack EXCEPT ![Len(stack)] =
                          [@ EXCEPT !.phase = phase, !.i = i]]
                     \o <<Frame(target, hypotheses, Top.depth + 1, Top.max_depth)>>
         /\ out' = Nil
         /\ UNCHANGED <<arg1, arg2, cache, call, result, ncalls>>

\* lines 301-303
CacheHit ==
    /\ pc = "run"
    /\ CacheHas(cache, TopKey)
    /\ Return_(CacheGet(cache, TopKey), cache)

\* lines 308-312
HypothesisMatch ==
    /\ pc = "run"
    /\ ~ CacheHas(cache, TopKey)
    /\ Top.depth <= Top.max_depth
    /\ HypMatches(Top) # {}
    /\ StoreAndReturn(HypothesisProof(Min(HypMatches(Top)), Top.target))

\* lines 314-319
Deduce ==
    /\ PastHypotheses
    /\ IsImplication(Top.target)
    /\ LET left  == Top.target.children[1]
           right == Top.target.children[2]
           new_hypotheses == Top.hyps \o <<left>>
       IN  Recurse(right, new_hypotheses, "deduction", 0)

\* lines 321-324
DeductionSucceeds ==
    /\ pc = "return"
    /\ Top.phase = "deduction"
    /\ out # NoProof
    /\ StoreAndReturn(DeductionProof(Top.target.children[1],
                                     Top.target.children[2], out))

\* lines 326-329
MpTry ==
    /\ MpResume >= 0
    /\ MpCandidates(Top, MpResume) # {}
    /\ LET i == Min(MpCandidates(Top, MpResume))
           left == Top.hyps[i + 1].children[1]
       IN  Recurse(left, Top.hyps, "mp", i)

\* lines 331-334
MpSucceeds ==
    /\ pc = "return"
    /\ Top.phase = "mp"
    /\ out # NoProof
    /\ StoreAndReturn(MpProof(Top.i, out, Top.target))

\* lines 336-341
AxiomMatch ==
    /\ MpResume >= 0
    /\ MpCandidates(Top, MpResume) = {}
    /\ AxiomMatches(Top.target) # {}
    /\ LET axiom_idx == Min(AxiomMatches(Top.target))
           substitution == match_pattern(axioms[axiom_idx], Top.target, EmptySubst)
       IN  StoreAndReturn(AxiomProof(axiom_idx, substitution.subst, Top.target))

\* if depth > max_depth (line 305)
DepthExceeded ==
    /\ pc = "run"
    /\ ~ CacheHas(cache, TopKey)
    /\ Top.depth > Top.max_depth

\* no hypothesis of the loop of line 326 is left and no axiom matches
RulesExhausted ==
    /\ MpResume >= 0
    /\ MpCandidates(Top, MpResume) = {}
    /\ AxiomMatches(Top.target) = {}

\* return None (line 306), or falling off the end of prove: nothing stored
NoProofFound ==
    /\ (DepthExceeded \/ RulesExhausted)
    /\ Return_(NoProof, cache)

-----------------------------------------------------------------------------
(* The calls made on one Prover.                                           *)

\* How many outermost calls one Prover serves.
MaxCalls == 2
\* Largest max_depth an outermost call gives explicitly.
MaxDepthBound == 2

VarA == Var("A")
VarB == Var("B")
AimpA == Node2("IMPL", VarA, VarA)

NotA == Node1("NOT", VarA)
NotB == Node1("NOT", VarB)

\* An instance of the third axiom: (not B -> not A) -> ((not B -> A) -> B).
Axiom3Instance ==
    Node2("IMPL", Node2("IMPL", NotB, NotA),
                  Node2("IMPL", Node2("IMPL", NotB, VarA), VarB))

\* The targets of the outermost calls given a max_depth.
Targets ==
    {VarA, VarB, AimpA, Node2("AND", VarA, VarB), Node2("AND", VarB, VarA)}

\* The targets of the outermost calls made with the default max_depth.
DefaultTargets == Targets \cup {Axiom3Instance}

\* The hypothesis lists of the outermost calls: none, one that is the
\* target with its operands swapped, implications whose antecedent is the
\* target itself or is provable.
HypLists ==
    {<<>>,
     <<Node2("AND", VarB, VarA)>>,
     <<AimpA>>,
     <<Node2("IMPL", AimpA, VarB)>>,
     <<AimpA, Node2("IMPL", AimpA, VarB)>>}

\* prover.prove(target, hypotheses, 0, max_depth)
Call(target, hypotheses, max_depth) ==
    /\ pc \in {"idle", "done"}
    /\ ncalls < MaxCalls
    /\ pc' = "run"
    /\ stack' = <<Frame(target, hypotheses, 0, max_depth)>>
    /\ call' = [target |-> target, hyps |-> hypotheses, depth |-> 0,
                max_depth |-> max_depth]
    /\ result' = Nil
    /\ out' = Nil
    /\ ncalls' = ncalls + 1
    /\ UNCHANGED <<arg1, arg2, cache>>

CallBounded ==
    \E target \in Targets, hypotheses \in HypLists, max_depth \in 0..MaxDepthBound :
        Call(target, hypotheses, max_depth)

\* Prover().prove(target, hypotheses): the first call of a Prover, with
\* max_depth taking its default, as main makes it
CallDefault ==
    /\ ncalls = 0
    /\ \E target \in DefaultTargets, hypotheses \in HypLists :
           Call(target, hypotheses, DefaultMaxDepth)

\* the same call made again on the same Prover
CallAgain ==
    /\ pc = "done"
    /\ Call(call.target, call.hyps, call.max_depth)

\* Prover(): an empty cache, nothing running
Init ==
    /\ pc = "idle"
    /\ arg1 = Nil
    /\ arg2 = Nil
    /\ out = Nil
    /\ ProverIdle

Step ==
    \/ CacheHit
    \/ HypothesisMatch
    \/ Deduce
    \/ DeductionSucceeds
    \/ MpTry
    \/ MpSucceeds
    \/ AxiomMatch
    \/ NoProofFound

Next == CallBounded \/ Step

Spec == Init /\ [][Next]_vars

NextDefault == CallDefault \/ CallAgain \/ Step

SpecDefault == Init /\ [][NextDefault]_vars

-----------------------------------------------------------------------------
(* main: the formula it hands to the Prover.                               *)

\* exp = "(implies A A)"
MainExp == Flatten(<<LP, IMPLIES, SP, VA, SP, VA, RP>>)

\* f = Parser(exp).parse_formula(); f = normalize_formula(f)
MainFormula == normalize_formula(Parse(MainExp).f)

-----------------------------------------------------------------------------
(* Claims about the Prover.                                                *)

\* proof justifies target from the hypotheses, each comparison of formulas
\* being is_equal.
RECURSIVE Valid(_, _, _)
Valid(proof, target, hypotheses) ==
    CASE proof.rule = "hypothesis" ->
            /\ proof.index \in 0..(Len(hypotheses) - 1)
            /\ is_equal(hypotheses[proof.index + 1], target)
      [] proof.rule = "deduction" ->
            /\ target.type = "IMPL"
            /\ is_equal(proof.left, target.children[1])
            /\ is_equal(proof.right, target.children[2])
            /\ Valid(proof.sub[1], target.children[2],
                     hypotheses \o <<target.children[1]>>)
      [] proof.rule = "mp" ->
            /\ proof.index \in 0..(Len(hypotheses) - 1)
            /\ LET hyp == hypotheses[proof.index + 1]
               IN  /\ hyp.type = "IMPL"
                   /\ is_equal(hyp.children[2], target)
                   /\ is_equal(proof.target, target)
                   /\ Valid(proof.sub[1], hyp.children[1], hypotheses)
      [] proof.rule = "axiom" ->
            /\ proof.index \in 1..Len(axioms)
            /\ is_equal(apply_substitution(axioms[proof.index], proof.subst), target)
      [] OTHER -> FALSE

\* The first call of a fresh Prover was prove(main's formula) with no
\* hypotheses, depth 0 and the default max_depth, and it has returned.
MainCallReturned ==
    /\ pc = "done"
    /\ ncalls = 1
    /\ call.target = MainFormula
    /\ call.hyps = <<>>
    /\ call.depth = 0
    /\ call.max_depth = DefaultMaxDepth

\* C1 as stated: prove of (implies A A) with no hypotheses and the default
\* max_depth on a fresh Prover returns the Axiom node of axiom 4 with the
\* substitution {A -> Variable A}.
C1_ReturnsAxiom4 ==
    MainCallReturned =>
        /\ result.rule = "axiom"
        /\ result.index = 4
        /\ result.subst = [n \in {"A"} |-> Var("A")]

\* C1 amended: that call returns the Deduction node of antecedent A and
\* consequent A whose subproof is Hypothesis 0, the deduction rule being
\* tried before the axioms.
C1_ReturnsDeduction ==
    MainCallReturned =>
        result = DeductionProof(Var("A"), Var("A"), HypothesisProof(0, Var("A")))

\* C1 witness: the call of main has returned a proof.
C1_Witness ==
    /\ MainCallReturned
    /\ result # NoProof
    /\ cache # {}

\* C2 as stated: a call with depth 0 and max_depth 0, in any cache state
\* earlier calls left, returns a Hypothesis proof, an Axiom proof or no
\* proof, never a Deduction or ModusPonens proof.
C2_MaxDepth0Immediate ==
    (pc = "done" /\ call.depth = 0 /\ call.max_depth = 0)
        => result.rule \in {"hypothesis", "axiom", "none"}

\* C3 as stated: every prove call returns a proof or no proof, each active
\* call being one deeper than its caller and none deeper than max_depth + 1.
C3_ProveReturns ==
    /\ pc # "raised"
    /\ \A k \in 1..Len(stack) :
           /\ stack[k].depth = k - 1
           /\ stack[k].depth <= stack[k].max_depth + 1

\* The call that has just returned to the top frame: its target and
\* hypotheses.
ReturnedTarget ==
    IF Top.phase = "deduction" THEN Top.target.children[2]
    ELSE Top.hyps[Top.i + 1].children[1]

ReturnedHyps ==
    IF Top.phase = "deduction" THEN Top.hyps \o <<Top.target.children[1]>>
    ELSE Top.hyps

\* C10: every proof a prove call returns and every entry of the cache is a
\* valid justification of its target from its hypotheses, and the cache
\* holds no 'no proof' entry.
C10_ProofsValid ==
    /\ \A e \in cache :
           /\ e.proof # NoProof
           /\ Valid(e.proof, e.key.target, e.key.hyps)
    /\ (pc = "done" /\ result # NoProof)
           => Valid(result, call.target, call.hyps)
    /\ (pc = "return" /\ out # NoProof)
           => Valid(out, ReturnedTarget, ReturnedHyps)

\* C10 witness: a second call on the Prover returned a modus-ponens proof
\* whose subproof is an axiom instance, with entries in the cache.
C10_Witness ==
    /\ pc = "done"
    /\ ncalls = 2
    /\ result.rule = "mp"
    /\ result.sub[1].rule = "axiom"
    /\ Cardinality(cache) >= 2

=============================================================================
